---- MODULE Spec2Model ----
(***************************************************************************)
(* Schooling simulation of the aquarium repository.                        *)
(*                                                                         *)
(*   aquarium3d/simulation.py : vector helpers, FishState,                 *)
(*                              GoldfishSimulator, _random_direction,      *)
(*                              _slerp                                     *)
(*   main.py                  : _normalize, _random_direction, Fish, Tank  *)
(*   tools/check_merge_with_branch.py : main                               *)
(*   python_sim/simulation.py : AquariumSimulation                         *)
(*                                                                         *)
(* Numbers.  Python floats are modelled as fixed-point integers: the       *)
(* integer n stands for the real number n / S (S = 10000, so 0.9995 is     *)
(* 9995 and 2*pi is 62832).  Products and quotients are rounded to the     *)
(* nearest unit.  A raised ZeroDivisionError is the value Raised, which    *)
(* every vector operation propagates, as an exception propagates through   *)
(* the calling expressions.                                                *)
(***************************************************************************)
EXTENDS Integers, Sequences, FiniteSets, TLC

VARIABLES
    constructed,   \* constructed[s] : a GoldfishSimulator object s exists
    cfg,           \* cfg[s]   : the constructor arguments kept in self.*
    fish,          \* fish[s]  : self.fish, a list of FishState
    rng,           \* rng[s]   : self.rng, position in its random stream
    snap,          \* snap[s]  : the list last returned by states() to a caller
    prev,          \* prev[s]  : self.fish and self.rng before the last step
    hist,          \* hist[s]  : the calls made on s (dt of each step, outcome)
    vecIn,         \* arguments of the last pure vector function call
    vecOut,        \* the function called and its result
    tank,          \* main.py: the Tank object and its list of Fish
    tankLast,      \* the Fish at construction and before the last Tank.step,
                   \* the dt and the random draws of that step
    tool,          \* a run of main() of tools/check_merge_with_branch.py
    aq,            \* aq[s]   : python_sim, an AquariumSimulation object s
    globalRandom,  \* the generators of the modules random and numpy.random,
                   \* which every object of the process shares
    active,        \* main.py: manager.active, the list of connections
    conn,          \* conn[w] : the websocket_endpoint coroutine of connection
                   \* w and the messages sent to w
    loop           \* the simulation_loop coroutine, the number of steps
                   \* applied to each Fish of the server's tank, and the
                   \* broadcast in progress

vars == <<constructed, cfg, fish, rng, snap, prev, hist, vecIn, vecOut, tank, tankLast, tool,
          aq, globalRandom, active, conn, loop>>

simVars == <<constructed, cfg, fish, rng, snap, prev, hist>>
vecVars == <<vecIn, vecOut>>
tankVars == <<tank, tankLast>>
aqVars == <<aq, globalRandom>>
srvVars == <<active, conn, loop>>
extVars == <<tank, tankLast, tool, aq, globalRandom, active, conn, loop>>

-----------------------------------------------------------------------------
(* Fixed-point arithmetic                                                  *)

S == 10000

Raised == <<>>

Abs(x) == IF x < 0 THEN -x ELSE x

Max2(x, y) == IF x >= y THEN x ELSE y

Min2(x, y) == IF x <= y THEN x ELSE y

\* a / b rounded to the nearest integer, b > 0
RDiv(a, b) == IF a >= 0 THEN (2 * a + b) \div (2 * b) ELSE -((2 * (-a) + b) \div (2 * b))

\* x * y of two fixed-point numbers: x * y / S, with y split into its integer
\* and fractional parts so that the intermediate products stay small
Mul(x, y) == x * (y \div S) + RDiv(x * (y % S), S)

\* the largest r in lo .. hi with r * r <= n, by bisection
SqrtMid(lo, hi) == (lo + hi + 1) \div 2

RECURSIVE SqrtSearch(_, _, _)
SqrtSearch(n, lo, hi) ==
    IF lo >= hi THEN lo
    ELSE IF SqrtMid(lo, hi) * SqrtMid(lo, hi) <= n
         THEN SqrtSearch(n, SqrtMid(lo, hi), hi)
         ELSE SqrtSearch(n, lo, SqrtMid(lo, hi) - 1)

SqrtRound(n, r) == IF n - r * r > r THEN r + 1 ELSE r

\* math.sqrt of n / S^2, in units of 1 / S, rounded to nearest
Sqrt(n) == SqrtRound(n, SqrtSearch(n, 0, 46000))

\* x < 1e-6 and 1e-6 < x : 1e-6 is one hundredth of a unit
LtEps(x) == 100 * x < 1

GtEps(x) == 100 * x > 1

TwoPi == 62832

\* math.cos and math.sin at the quarter turns and at +-pi/6, the angles the
\* random draws of the model produce
Cos(x) ==
    CASE x = 0 -> S [] x = 15708 -> 0 [] x = 31416 -> -S [] x = 47124 -> 0
      [] x = 5236 -> 8660 [] x = -5236 -> 8660

Sin(x) ==
    CASE x = 0 -> 0 [] x = 15708 -> S [] x = 31416 -> 0 [] x = 47124 -> -S
      [] x = 5236 -> 5000 [] x = -5236 -> -5000

-----------------------------------------------------------------------------
(* Vector helpers, aquarium3d/simulation.py                                *)

Zero3 == <<0, 0, 0>>

_vec_add(a, b) ==
    IF a = Raised \/ b = Raised THEN Raised
    ELSE <<a[1] + b[1], a[2] + b[2], a[3] + b[3]>>

_vec_sub(a, b) ==
    IF a = Raised \/ b = Raised THEN Raised
    ELSE <<a[1] - b[1], a[2] - b[2], a[3] - b[3]>>

_vec_scale(v, s) ==
    IF v = Raised THEN Raised
    ELSE <<Mul(v[1], s), Mul(v[2], s), Mul(v[3], s)>>

\* _vec_scale(v, 1.0 / d): the division raises ZeroDivisionError when d == 0
_vec_scale_inv(v, d) ==
    IF v = Raised \/ d = 0 THEN Raised
    ELSE <<RDiv(v[1] * S, d), RDiv(v[2] * S, d), RDiv(v[3] * S, d)>>

_vec_length(v) ==
    IF v = Raised THEN 0
    ELSE Sqrt(v[1] * v[1] + v[2] * v[2] + v[3] * v[3])

\* a . b in units of 1 / S^2 (not yet rounded)
DotRaw(a, b) == a[1] * b[1] + a[2] * b[2] + a[3] * b[3]

_vec_dot(a, b) == IF a = Raised \/ b = Raised THEN 0 ELSE RDiv(DotRaw(a, b), S)

_vec_normalize_unguarded(v) == _vec_scale_inv(v, _vec_length(v))

_vec_normalize(v) ==
    IF v = Raised THEN Raised
    ELSE IF _vec_length(v) = 0 THEN Zero3
    ELSE _vec_scale_inv(v, _vec_length(v))

_vec_cross(a, b) ==
    IF a = Raised \/ b = Raised THEN Raised
    ELSE <<Mul(a[2], b[3]) - Mul(a[3], b[2]),
           Mul(a[3], b[1]) - Mul(a[1], b[3]),
           Mul(a[1], b[2]) - Mul(a[2], b[1])>>

\* the rows of the matrix whose columns are forward, right and up
Columns(fwd, right, up) ==
    << <<fwd[1], right[1], up[1]>>,
       <<fwd[2], right[2], up[2]>>,
       <<fwd[3], right[3], up[3]>> >>

OrientationRightUp(fwd, right) ==
    Columns(fwd, right, _vec_normalize(_vec_cross(right, fwd)))

OrientationForward(fwd) ==
    OrientationRightUp(fwd,
        _vec_normalize(_vec_cross(fwd,
            IF Abs(_vec_dot(<<0, 0, S>>, fwd)) > 9000 THEN <<0, S, 0>> ELSE <<0, 0, S>>)))

_orientation_from_direction(direction) ==
    IF direction = Raised THEN Raised
    ELSE OrientationForward(_vec_normalize(direction))

\* main.py _normalize: the x axis for vectors shorter than 1e-6
_normalize(vec) ==
    IF LtEps(_vec_length(vec)) THEN <<S, 0, 0>>
    ELSE _vec_scale_inv(vec, _vec_length(vec))

-----------------------------------------------------------------------------
(* _slerp, aquarium3d/simulation.py                                        *)

\* The blend factors of the trigonometric branch,
\*   factor_a = sin((1 - t) * theta) / sin(theta),
\*   factor_b = sin(t * theta) / sin(theta),       theta = acos(dot),
\* for the blend values the model uses.  At t = 0 they are sin(theta)/sin(theta)
\* and sin(0)/sin(theta); at t = 1 the reverse; at t = 1/2 both are
\* sin(theta/2)/sin(theta) = 1 / sqrt(2 + 2 dot).  sin(theta) is zero only for
\* dot = 1 (theta = acos(1.0) = 0.0), where the division raises.  At dot = -1,
\* theta is the float pi and sin(theta) is 1.22e-16, not zero: at t = 1/2 both
\* factors are the same huge number HugeFactor, at t = 0 and t = 1 the quotients
\* are exactly 1.0 and 0.0.  At t = -1/2 (a negative dt, which line 164 does not
\* clamp) they are sin(3 theta / 2)/sin(theta) = (1 + 2 dot) / sqrt(2 + 2 dot)
\* and sin(-theta/2)/sin(theta) = -1 / sqrt(2 + 2 dot), both -HugeFactor at
\* dot = -1.
HugeFactor == 2000000000

HalfFactor(d) == IF d = 0 THEN HugeFactor ELSE RDiv(S * S, d)

\* sin(3 theta / 2) / sin(theta), with d = sqrt(2 + 2 dot)
BackFactor(dotRaw, d) == IF d = 0 THEN -HugeFactor ELSE RDiv(S * S + 2 * dotRaw, d)

SlerpFactorsSwapped(dotRaw, t) ==
    CASE dotRaw >= S * S -> Raised
      [] dotRaw < S * S /\ t = 0 -> <<0, S>>
      [] dotRaw < S * S /\ t = S -> <<S, 0>>
      [] dotRaw < S * S /\ 2 * t = S ->
            <<HalfFactor(Sqrt(2 * S * S + 2 * dotRaw)), HalfFactor(Sqrt(2 * S * S + 2 * dotRaw))>>
      [] dotRaw < S * S /\ 2 * t = -S ->
            <<BackFactor(dotRaw, Sqrt(2 * S * S + 2 * dotRaw)),
              -HalfFactor(Sqrt(2 * S * S + 2 * dotRaw))>>

SlerpFactors(dotRaw, t) ==
    CASE dotRaw >= S * S -> Raised
      [] dotRaw < S * S /\ t = 0 -> <<S, 0>>
      [] dotRaw < S * S /\ t = S -> <<0, S>>
      [] dotRaw < S * S /\ 2 * t = S ->
            <<HalfFactor(Sqrt(2 * S * S + 2 * dotRaw)), HalfFactor(Sqrt(2 * S * S + 2 * dotRaw))>>
      [] dotRaw < S * S /\ 2 * t = -S ->
            <<BackFactor(dotRaw, Sqrt(2 * S * S + 2 * dotRaw)),
              -HalfFactor(Sqrt(2 * S * S + 2 * dotRaw))>>

\* a[k] * fa + b[k] * fb.  With the huge factors of the antiparallel half turn
\* the float sum is exactly 0.0 when a[k] == -b[k] and of the order of 1e11
\* otherwise, which saturates at HugeFactor here.
BlendComponent(x, fa, y, fb) ==
    IF fa = HugeFactor
    THEN (IF x + y = 0 THEN 0 ELSE IF x + y > 0 THEN HugeFactor ELSE -HugeFactor)
    ELSE IF fa = -HugeFactor
    THEN (IF x + y = 0 THEN 0 ELSE IF x + y > 0 THEN -HugeFactor ELSE HugeFactor)
    ELSE Mul(x, fa) + Mul(y, fb)

\* line 193, with the factors f of lines 189-192
SlerpBlend(a, b, f) ==
    IF f = Raised THEN Raised
    ELSE <<BlendComponent(a[1], f[1], b[1], f[2]),
           BlendComponent(a[2], f[1], b[2], f[2]),
           BlendComponent(a[3], f[1], b[3], f[2])>>

\* a blend value of magnitude 2^53 or more, where a float no longer holds t + 1
HugeT == 1000000000

OneMinusAbsorbed(t) == -t

\* 1.0 - t (line 187): the float difference is -t when t absorbs the 1.0
OneMinus(t) == IF Abs(t) >= HugeT THEN -t ELSE S - t

\* lines 186-193, with the clamped dot product of line 185
SlerpAt(a, b, t, dotRaw) ==
    IF dotRaw > 9995 * S
    THEN _vec_normalize(_vec_add(_vec_scale(a, OneMinus(t)), _vec_scale(b, t)))
    ELSE SlerpBlend(a, b, SlerpFactors(dotRaw, t))

_slerp(a, b, t) ==
    IF a = Raised \/ b = Raised THEN Raised
    ELSE SlerpAt(a, b, t, Max2(-(S * S), Min2(S * S, DotRaw(a, b))))

-----------------------------------------------------------------------------
(* Bounds of the model                                                     *)

MaxFish == 2

MaxSteps == 3

NumSeeds == 3

MaxPairSteps == 2

\* the number of fish of the flock scenario
FlockSize == 10

SimIds == {1, 2}

\* the dt values passed to step: 0.5 and 1.0
DtValues == {S \div 2, S}

-----------------------------------------------------------------------------
(* random.Random: a seeded generator is a fixed stream of random() values  *)
(* and a position in it.  Each stream is a list of values of random() in   *)
(* [0, 1); seed k selects stream ((k - 1) % 3) + 1.                         *)

RngStreams ==
    << <<0, 5000, 5000, 5000, 5000, 0, 5000, 0, 2500>>,
       <<7500, 2500, 7500, 2500, 7500, 7500, 2500, 2500, 0>>,
       <<5000, 5000, 7500, 0, 5000, 7500, 0, 7500, 2500>> >>

StreamOf(seed) == RngStreams[((seed - 1) % 3) + 1]

Seeds == 1 .. NumSeeds

\* rng.random(): the k-th value after position r.idx (k = 0 is the next one)
RandomAt(r, k) == StreamOf(r.seed)[((r.idx + k) % Len(StreamOf(r.seed))) + 1]

\* the generator after n calls of random()
Advance(r, n) == [r EXCEPT !.idx = (r.idx + n) % Len(StreamOf(r.seed))]

\* rng.uniform(a, b) = a + (b - a) * random()
Uniform(a, b, x) == a + Mul(b - a, x)

\* line 181, with costheta and sintheta of lines 179-180
DirectionAt(phi, costheta, sintheta) ==
    <<Mul(Cos(phi), sintheta), Mul(Sin(phi), sintheta), costheta>>

DirectionOf(phi, costheta) ==
    DirectionAt(phi, costheta, Sqrt(Max2(0, S * S - costheta * costheta)))

\* _random_direction(rng), given its two random() values
_random_direction(x1, x2) == DirectionOf(Uniform(0, TwoPi, x1), Uniform(-S, S, x2))

-----------------------------------------------------------------------------
(* GoldfishSimulator                                                       *)

None == 0

DefaultTank == <<26000, 16000, 14000>>

\* the constructor arguments a caller passes; the remaining parameters keep
\* their defaults except turn_rate, which is 1.0 so that min(1, turn_rate*dt)
\* is 1/2 or 1 for the dt values of the model
ConstructArgs ==
    [fish_count : (-1) .. MaxFish,
     tank_size : {DefaultTank, <<26000, 0, 14000>>},
     speeds : {<<2500, 5500>>, <<5500, 2500>>},
     rng : {None} \cup Seeds]

\* self.* after lines 90-98
ConfigOf(args) ==
    [fish_count |-> args.fish_count,
     tank |-> args.tank_size,
     min_speed |-> args.speeds[1],
     max_speed |-> args.speeds[2],
     turn_rate |-> S,
     cohesion |-> 2000,
     separation_distance |-> 1800,
     separation_strength |-> 5000,
     surface_damping |-> 4000]

\* the configurations section 4.4 of the specification calls valid
ValidConfig(c) ==
    /\ c.fish_count >= 0
    /\ \A k \in 1 .. 3 : c.tank[k] > 0
    /\ c.min_speed <= c.max_speed

NoConfig == [fish_count |-> 0, tank |-> Zero3, min_speed |-> 0, max_speed |-> 0,
             turn_rate |-> 0, cohesion |-> 0, separation_distance |-> 0,
             separation_strength |-> 0, surface_damping |-> 0]

\* self.rng = rng or random.Random(): an unseeded generator starts anywhere
InjectedRngIgnored(arg, fresh) == [seed |-> fresh, idx |-> 0]

InjectedRng(arg, fresh) ==
    IF arg = None THEN [seed |-> fresh, idx |-> 0] ELSE [seed |-> arg, idx |-> 0]

FishState(position, velocity, orientation, scale, phase) ==
    [position |-> position, velocity |-> velocity, orientation |-> orientation,
     scale |-> scale, phase |-> phase]

\* FishState.forward
forward(f) == <<f.orientation[1][1], f.orientation[2][1], f.orientation[3][1]>>

\* lines 107-111, with the heading of line 105
SpawnHeading(c, r, pos, heading) ==
    FishState(pos,
              _vec_scale(heading, Uniform(c.min_speed, c.max_speed, RandomAt(r, 5))),
              _orientation_from_direction(heading),
              Uniform(8000, 12000, RandomAt(r, 6)),
              Mul(Mul(RandomAt(r, 7), 2 * S), 31416))

\* _spawn_fish: eight random() values, in the order the code draws them
_spawn_fish(c, r) ==
    SpawnHeading(c, r,
                 <<Mul(RandomAt(r, 0) - 5000, c.tank[1]),
                   Mul(RandomAt(r, 1) - 5000, c.tank[2]),
                   Mul(RandomAt(r, 2) - 5000, c.tank[3])>>,
                 _random_direction(RandomAt(r, 3), RandomAt(r, 4)))

\* for _ in range(fish_count): self.fish.append(self._spawn_fish())
RECURSIVE SpawnAll(_, _, _, _)
SpawnAll(c, n, acc, r) ==
    IF n <= 0 THEN [fish |-> acc, rng |-> r]
    ELSE SpawnAll(c, n - 1, Append(acc, _spawn_fish(c, r)), Advance(r, 8))

-----------------------------------------------------------------------------
(* GoldfishSimulator.step                                                  *)

\* center: the mean position of self.fish (lines 116-120)
RECURSIVE SumAxis(_, _, _)
SumAxis(fs, axis, j) ==
    IF j > Len(fs) THEN 0 ELSE fs[j].position[axis] + SumAxis(fs, axis, j + 1)

Center(fs) ==
    IF Len(fs) = 0 THEN Raised
    ELSE <<RDiv(SumAxis(fs, 1, 1), Len(fs)),
           RDiv(SumAxis(fs, 2, 1), Len(fs)),
           RDiv(SumAxis(fs, 3, 1), Len(fs))>>

\* if 1e-6 < dist < self.separation_distance (line 133)
InSeparationRangeNoEps(dist, c) == dist < c.separation_distance

InSeparationRange(dist, c) == GtEps(dist) /\ dist < c.separation_distance

\* line 134 for one other fish at difference diff and distance dist
SeparationTerm(diff, dist, c) ==
    IF InSeparationRange(dist, c) THEN _vec_scale_inv(diff, dist) ELSE Zero3

SeparationOf(diff, c) == SeparationTerm(diff, _vec_length(diff), c)

\* the inner loop over the other fish (lines 127-134)
RECURSIVE SeparationVec(_, _, _, _, _)
SeparationVec(view, idx, j, c, acc) ==
    IF j > Len(view) THEN acc
    ELSE IF j = idx THEN SeparationVec(view, idx, j + 1, c, acc)
    ELSE SeparationVec(view, idx, j + 1, c,
            _vec_add(acc, SeparationOf(_vec_sub(view[idx].position, view[j].position), c)))

\* one axis of the wall correction of desired_dir (lines 139-146)
WallComponent(component, pos_axis, limit) ==
    IF pos_axis < -limit /\ component < 0 THEN Mul(-8000, component)
    ELSE IF pos_axis > limit /\ component > 0 THEN Mul(-8000, component)
    ELSE component

WallCorrect(d, pos, tank_size) ==
    <<WallComponent(d[1], pos[1], Mul(tank_size[1], 5000)),
      WallComponent(d[2], pos[2], Mul(tank_size[2], 5000)),
      WallComponent(d[3], pos[3], Mul(tank_size[3], 5000))>>

\* the damping of the vertical component near the surface (lines 148-153)
SurfaceDamp(d, pos, c) ==
    IF pos[3] > Mul(c.tank[3], 4000)
    THEN <<d[1], d[2], d[3] - Mul(c.surface_damping, Abs(d[3]))>>
    ELSE d

\* the FishState a step that raised never builds
RaisedFish == FishState(Raised, Raised, Raised, 0, 0)

\* lines 123-126: the unit vector towards the centroid
CohesionVec(cohesion0) ==
    IF _vec_length(cohesion0) > 0 THEN _vec_scale_inv(cohesion0, _vec_length(cohesion0))
    ELSE cohesion0

\* lines 135-137: velocity + cohesion + separation - 0.1 * position
DesiredRaw(view, idx, center, c) ==
    _vec_add(_vec_add(_vec_add(view[idx].velocity,
                               _vec_scale(CohesionVec(_vec_sub(center, view[idx].position)),
                                          c.cohesion)),
                      _vec_scale(SeparationVec(view, idx, 1, c, Zero3), c.separation_strength)),
             _vec_scale(view[idx].position, -1000))

\* lines 139-153: the wall correction, then the surface damping
Steer(raw, position, c) ==
    IF raw = Raised THEN Raised
    ELSE SurfaceDamp(WallCorrect(raw, position, c.tank), position, c)

\* lines 155-161: the desired direction and speed, from the steered vector
\* and its length
Desired(steered, raw_speed, c, r) ==
    IF steered # Raised /\ LtEps(raw_speed)
    THEN [dir |-> _random_direction(RandomAt(r, 0), RandomAt(r, 1)),
          speed |-> c.min_speed, fallback |-> TRUE]
    ELSE [dir |-> _vec_scale_inv(steered, raw_speed),
          speed |-> Max2(c.min_speed, Min2(c.max_speed, raw_speed)), fallback |-> FALSE]

\* lines 166-170, with new_velocity of line 165
Moved(f, new_dir, new_velocity, desired_speed, dt) ==
    IF new_velocity = Raised THEN RaisedFish
    ELSE FishState(_vec_add(f.position, _vec_scale(new_velocity, dt)),
                   new_velocity,
                   _orientation_from_direction(new_dir),
                   f.scale,
                   (f.phase + Mul(Mul(desired_speed, dt), 18000)) % TwoPi)

TurnedTowardsDesired(f, d, c, dt, new_dir) ==
    Moved(f, d.dir, _vec_scale(new_dir, d.speed), d.speed, dt)

\* lines 163-170, with the desired direction and speed d
Turned(f, d, c, dt, new_dir) == Moved(f, new_dir, _vec_scale(new_dir, d.speed), d.speed, dt)

\* min(1.0, self.turn_rate * dt), the blend value of line 164
BlendOf(c, dt) == Min2(S, Mul(c.turn_rate, dt))

UpdateTo(f, d, c, r, dt) ==
    [state |-> Turned(f, d, c, dt,
                      _slerp(_vec_normalize(f.velocity), d.dir, BlendOf(c, dt))),
     rng |-> IF d.fallback THEN Advance(r, 2) ELSE r]

UpdateSteered(f, steered, c, r, dt) ==
    UpdateTo(f, Desired(steered, _vec_length(steered), c, r), c, r, dt)

\* the body of the loop over self.fish for the fish at index idx (lines
\* 123-170); view is the list the body reads, r the generator before it
UpdateFish(view, idx, center, c, r, dt) ==
    UpdateSteered(view[idx], Steer(DesiredRaw(view, idx, center, c), view[idx].position, c),
                  c, r, dt)

\* the list the loop body reads while `updated` is being built: self.fish,
\* which is assigned only after the loop (line 171)
LoopViewInPlace(old, updated) == updated \o SubSeq(old, Len(updated) + 1, Len(old))

LoopView(old, updated) == old

\* for idx, fish in enumerate(self.fish): ... updated.append(...)
RECURSIVE StepLoop(_, _, _, _, _, _, _)

StepLoopNext(old, center, idx, updated, c, u, dt) ==
    StepLoop(old, center, idx + 1, Append(updated, u.state), c, u.rng, dt)

StepLoop(old, center, idx, updated, c, r, dt) ==
    IF idx > Len(old) THEN [fish |-> updated, rng |-> r]
    ELSE StepLoopNext(old, center, idx, updated, c,
                      UpdateFish(LoopView(old, updated), idx, center, c, r, dt), dt)

AnyRaised(fs) == \E i \in 1 .. Len(fs) : fs[i] = RaisedFish

\* line 171 is reached only if no iteration raised
StepOutcome(fs, res) ==
    IF AnyRaised(res.fish)
    THEN [fish |-> fs, rng |-> res.rng, raised |-> TRUE]
    ELSE [fish |-> res.fish, rng |-> res.rng, raised |-> FALSE]

\* step(dt): the new self.fish and self.rng, and whether an exception left
\* the method before line 171
StepResult(fs, c, r, dt) ==
    IF Len(fs) = 0 THEN [fish |-> fs, rng |-> r, raised |-> FALSE]
    ELSE StepOutcome(fs, StepLoop(fs, Center(fs), 1, <<>>, c, r, dt))

-----------------------------------------------------------------------------
(* State and operations of a simulator                                     *)

NoSnap == [taken |-> FALSE, shared |-> FALSE, refs |-> <<>>, objs |-> <<>>]

NoPrev == [fish |-> <<>>, rng |-> [seed |-> 1, idx |-> 0]]

NoHist == [dts |-> <<>>, raised |-> FALSE, placed |-> FALSE, rng_arg |-> None]

SimInit ==
    /\ constructed = [s \in SimIds |-> FALSE]
    /\ cfg = [s \in SimIds |-> NoConfig]
    /\ fish = [s \in SimIds |-> <<>>]
    /\ rng = [s \in SimIds |-> [seed |-> 1, idx |-> 0]]
    /\ snap = [s \in SimIds |-> NoSnap]
    /\ prev = [s \in SimIds |-> NoPrev]
    /\ hist = [s \in SimIds |-> NoHist]

VecIdle ==
    /\ vecIn = [a |-> Zero3, b |-> Zero3, t |-> 0]
    /\ vecOut = [op |-> "none", res |-> Zero3]

Constructed(s, args, sp) ==
    /\ constructed' = [constructed EXCEPT ![s] = TRUE]
    /\ cfg' = [cfg EXCEPT ![s] = ConfigOf(args)]
    /\ fish' = [fish EXCEPT ![s] = sp.fish]
    /\ rng' = [rng EXCEPT ![s] = sp.rng]
    /\ hist' = [hist EXCEPT ![s].rng_arg = args.rng]

\* GoldfishSimulator.__init__ (lines 77-101): no argument is checked
Construct(s, args, fresh) ==
    /\ ~constructed[s]
    /\ Constructed(s, args,
                   SpawnAll(ConfigOf(args), args.fish_count, <<>>, InjectedRng(args.rng, fresh)))
    /\ UNCHANGED <<snap, prev, vecVars, extVars>>

StepDone(s, dt, res) ==
    /\ fish' = [fish EXCEPT ![s] = res.fish]
    /\ rng' = [rng EXCEPT ![s] = res.rng]
    /\ hist' = [hist EXCEPT ![s].dts = Append(@, dt),
                            ![s].raised = @ \/ res.raised]
    \* line 169 builds new FishState objects: a list returned earlier no longer
    \* holds the simulator's objects
    /\ snap' = [snap EXCEPT ![s].shared = @ /\ (Len(fish[s]) = 0 \/ res.raised)]

\* GoldfishSimulator.step (lines 113-171)
Step(s, dt) ==
    /\ constructed[s]
    /\ Len(hist[s].dts) < MaxSteps
    /\ StepDone(s, dt, StepResult(fish[s], cfg[s], rng[s], dt))
    /\ prev' = [prev EXCEPT ![s] = [fish |-> fish[s], rng |-> rng[s]]]
    /\ UNCHANGED <<constructed, cfg, vecVars, extVars>>

\* the fish lists the scenarios of section 8 assign to self.fish: one fish,
\* a flock at one point, two fish a given distance apart
PlacePositions == {Zero3, <<13000, 0, 0>>, <<0, 0, 6000>>, <<-12000, 0, 0>>}

PlaceVelocities == {Zero3, <<2500, 0, 0>>, <<5500, 0, 0>>, <<-2500, 0, 0>>, <<0, 0, 4000>>}

Placed(position, velocity) ==
    FishState(position, velocity, _orientation_from_direction(velocity), S, 0)

\* the velocities of the two fish of a pair, along the line between them
PairVelocities == {<<2500, 0, 0>>, <<-2500, 0, 0>>, <<5500, 0, 0>>, <<-5500, 0, 0>>}

PlaceScenarios ==
    {[i \in 1 .. n |-> Placed(p, v)] : n \in 1 .. MaxFish, p \in PlacePositions, v \in PlaceVelocities}
    \cup {<<Placed(Zero3, v), Placed(<<d, 0, 0>>, w)>> :
            d \in {900, 1800, 3000}, v \in PairVelocities, w \in PairVelocities}
    \cup {[i \in 1 .. FlockSize |-> Placed(p, Zero3)] : p \in PlacePositions}

\* a caller assigns self.fish (line 90: a public attribute) before stepping
Place(s, placedFish) ==
    /\ constructed[s]
    /\ ValidConfig(cfg[s])
    /\ cfg[s].fish_count = 0
    /\ hist[s].dts = <<>>
    /\ ~hist[s].placed
    /\ fish' = [fish EXCEPT ![s] = placedFish]
    /\ hist' = [hist EXCEPT ![s].placed = TRUE]
    /\ snap' = [snap EXCEPT ![s].shared = FALSE]
    /\ UNCHANGED <<constructed, cfg, rng, prev, vecVars, extVars>>

\* GoldfishSimulator.states (lines 173-174): a new list of the same objects
states(s) ==
    /\ constructed[s]
    /\ snap' = [snap EXCEPT ![s] = [taken |-> TRUE, shared |-> TRUE,
                                    refs |-> [i \in 1 .. Len(fish[s]) |-> i],
                                    objs |-> fish[s]]]
    /\ UNCHANGED <<constructed, cfg, fish, rng, prev, hist, vecVars, extVars>>

\* the values a caller assigns to a field of a returned FishState
MutationValues == [velocity : {Zero3}] \cup [scale : {2 * S}]

\* FishState is a plain mutable dataclass (lines 62-68): assigning a field of
\* the object at place p of the returned list changes that object, which is
\* the simulator's own object while the list is shared
AssignField(f, m) ==
    IF "velocity" \in DOMAIN m THEN [f EXCEPT !.velocity = m.velocity]
    ELSE [f EXCEPT !.scale = m.scale]

MutateSnapshotObject(s, i, m) ==
    /\ snap[s].objs[i] # AssignField(snap[s].objs[i], m)
    /\ snap' = [snap EXCEPT ![s].objs[i] = AssignField(@, m)]
    /\ fish' = IF snap[s].shared
               THEN [fish EXCEPT ![s][i] = AssignField(@, m)]
               ELSE fish

MutateSnapshotField(s, p, m) ==
    /\ snap[s].taken
    /\ p \in 1 .. Len(snap[s].refs)
    /\ MutateSnapshotObject(s, snap[s].refs[p], m)
    /\ UNCHANGED <<constructed, cfg, rng, prev, hist, vecVars, extVars>>

\* the caller removes the first element of the returned list
MutateSnapshotList(s) ==
    /\ snap[s].taken
    /\ Len(snap[s].refs) > 0
    /\ snap' = [snap EXCEPT ![s].refs = Tail(@)]
    /\ UNCHANGED <<constructed, cfg, fish, rng, prev, hist, vecVars, extVars>>

-----------------------------------------------------------------------------
(* main.py: Fish and Tank.  Positions are normalised to [0, 1]; every call *)
(* of the module-level random functions is a value chosen by the           *)
(* environment.                                                            *)

SPEED_MIN == 500

SPEED_MAX == 1600

TURN_NOISE == 12000

WALL_BOUNCE == 8500

TICK_HZ == 20

\* main.py _random_direction, given its two random() values: the elevation is
\* within pi/6 of the horizontal
main_direction(azimuth, elevation) ==
    <<Mul(Cos(elevation), Cos(azimuth)), Sin(elevation), Mul(Cos(elevation), Sin(azimuth))>>

main_random_direction(u1, u2) ==
    main_direction(Uniform(0, TwoPi, u1), Uniform(-5236, 5236, u2))

\* the attributes of a Fish (lines 45-51)
MakeFish(idx, pos, dir, speed, scale) ==
    [id |-> idx, pos |-> pos, dir |-> dir, speed |-> speed, scale |-> scale,
     flip |-> 1, velocity |-> _vec_scale(dir, speed)]

\* Fish.__init__(idx), given the values d of its random calls
Fish(idx, d) ==
    MakeFish(idx, d.pos, _normalize(main_random_direction(d.az, d.el)),
             Uniform(SPEED_MIN, SPEED_MAX, d.speed), Uniform(7500, 12500, d.scale))

BounceSpeedUnclamped(speed) == Mul(speed, WALL_BOUNCE)

\* lines 58 and 63: max(SPEED_MIN, self.speed * WALL_BOUNCE)
BounceSpeed(speed) == Max2(SPEED_MIN, Mul(speed, WALL_BOUNCE))

\* Fish._bounce_axis (lines 53-63)
_bounce_axis(f, axis, limit_low, limit_high) ==
    IF f.pos[axis] < limit_low
    THEN [f EXCEPT !.pos[axis] = limit_low,
                   !.dir[axis] = Abs(@),
                   !.velocity[axis] = Abs(@),
                   !.speed = BounceSpeed(@)]
    ELSE IF f.pos[axis] > limit_high
    THEN [f EXCEPT !.pos[axis] = limit_high,
                   !.dir[axis] = -Abs(@),
                   !.velocity[axis] = -Abs(@),
                   !.speed = BounceSpeed(@)]
    ELSE f

\* lines 67-71
Jitter(d, dt) ==
    <<Mul(Uniform(-TURN_NOISE, TURN_NOISE, d.jitter[1]), dt),
      Mul(Mul(Uniform(-TURN_NOISE, TURN_NOISE, d.jitter[2]), dt), 6000),
      Mul(Uniform(-TURN_NOISE, TURN_NOISE, d.jitter[3]), dt)>>

\* line 79
CenterPull(pos, dt) ==
    <<Mul(Mul(5000 - pos[1], 1500), dt),
      Mul(Mul(5000 - pos[2], 1500), dt),
      Mul(Mul(5000 - pos[3], 1500), dt)>>

\* lines 72-84: the direction after the jitter and the pull to the centre
Steered(f, d, dt) ==
    _normalize(_vec_add(_normalize(_vec_add(f.dir, Jitter(d, dt))), CenterPull(f.pos, dt)))

\* lines 87-91, with the direction of line 80
AfterMove(f, dir, dt) ==
    [f EXCEPT !.dir = dir,
              !.velocity = _vec_scale(dir, f.speed),
              !.pos = _vec_add(f.pos, _vec_scale(_vec_scale(dir, f.speed), dt))]

BouncedTwoAxes(f) == _bounce_axis(_bounce_axis(f, 1, 500, 9500), 2, 500, 9500)

\* lines 94-96
Bounced(f) ==
    _bounce_axis(_bounce_axis(_bounce_axis(f, 1, 500, 9500), 2, 500, 9500), 3, 800, 9200)

\* lines 97-98
Renormalized(f) ==
    [f EXCEPT !.dir = _normalize(f.dir),
              !.velocity = _vec_scale(_normalize(f.dir), f.speed)]

SpeedChangedScale(f, d) == [f EXCEPT !.scale = Mul(@, 10500)]

\* lines 101-104: the second random() is called only if the first test fails
SpeedChanged(f, d) ==
    IF d.r1 < 500 THEN [f EXCEPT !.speed = Min2(SPEED_MAX, Mul(@, 10500))]
    ELSE IF d.r2 < 500 THEN [f EXCEPT !.speed = Max2(SPEED_MIN, Mul(@, 9700))]
    ELSE f

\* line 107
Flipped(f) == [f EXCEPT !.flip = IF f.velocity[1] < 0 THEN -1 ELSE 1]

\* Fish.step(dt), given the values d of its random calls (lines 65-107)
Fish_step(f, d, dt) ==
    Flipped(SpeedChanged(Renormalized(Bounced(AfterMove(f, Steered(f, d, dt), dt))), d))

Tank_init_from_one(n, draws) == [i \in 1 .. n |-> Fish(i, draws[i])]

\* Tank.__init__ (line 128): Fish(i) for i in range(fish_count)
Tank_init(n, draws) == [i \in 1 .. n |-> Fish(i - 1, draws[i])]

\* Tank.step (lines 130-132)
Tank_step(fs, draws, dt) == [i \in 1 .. Len(fs) |-> Fish_step(fs[i], draws[i], dt)]

MaxTankFish == 2

MaxTankSteps == 2

\* the values of the random calls of one Fish.__init__
FishInitDraws ==
    {[pos |-> <<0, 0, 0>>, az |-> 5000, el |-> 5000, speed |-> 0, scale |-> 0],
     [pos |-> <<9999, 9999, 9999>>, az |-> 0, el |-> 0, speed |-> 9999, scale |-> 9999],
     [pos |-> <<5000, 5000, 5000>>, az |-> 2500, el |-> 5000, speed |-> 5000, scale |-> 5000],
     [pos |-> <<9400, 600, 900>>, az |-> 0, el |-> 0, speed |-> 9999, scale |-> 0]}

\* the values of the random calls of one Fish.step: no jitter and no speed
\* change; jitter and the x1.05 change; jitter and the x0.97 change
FishStepDraws ==
    <<[jitter |-> <<5000, 5000, 5000>>, r1 |-> 5000, r2 |-> 5000],
      [jitter |-> <<0, 0, 0>>, r1 |-> 0, r2 |-> 5000],
      [jitter |-> <<9999, 5000, 0>>, r1 |-> 5000, r2 |-> 0]>>

\* the draws of the n fish in one Tank.step.  The fish do not read each other,
\* so the draws of one step are taken as a rotation of FishStepDraws over the
\* fish: over the steps every fish still meets every sequence of draws
StepDrawsOf(n, k) == [i \in 1 .. n |-> FishStepDraws[((k + i) % Len(FishStepDraws)) + 1]]

\* the dt of a Tank.step: the tick of simulation_loop, 1 / TICK_HZ, and 1.0
TankDts == {S \div TICK_HZ, S}

TankIdle ==
    /\ tank = [built |-> FALSE, fish |-> <<>>, steps |-> 0]
    /\ tankLast = [spawn |-> <<>>, fish |-> <<>>, draws |-> <<>>, dt |-> 0]

\* tank = Tank(fish_count)
TankConstruct(n, draws) ==
    /\ ~tank.built
    /\ tank' = [built |-> TRUE, fish |-> Tank_init(n, draws), steps |-> 0]
    /\ tankLast' = [tankLast EXCEPT !.spawn = Tank_init(n, draws)]
    /\ UNCHANGED <<simVars, vecVars, tool, aqVars, srvVars>>

\* tank.step(dt)
TankStep(dt, draws) ==
    /\ tank.built
    /\ tank.steps < MaxTankSteps
    /\ tank' = [tank EXCEPT !.fish = Tank_step(tank.fish, draws, dt), !.steps = @ + 1]
    /\ tankLast' = [tankLast EXCEPT !.fish = tank.fish, !.draws = draws, !.dt = dt]
    /\ UNCHANGED <<simVars, vecVars, tool, aqVars, srvVars>>

TankConstructAny ==
    \E n \in 0 .. MaxTankFish : \E draws \in [1 .. n -> FishInitDraws] : TankConstruct(n, draws)

TankStepAny ==
    \E dt \in TankDts, k \in 1 .. Len(FishStepDraws) :
        TankStep(dt, StepDrawsOf(Len(tank.fish), k))

-----------------------------------------------------------------------------
(* python_sim/simulation.py: AquariumSimulation.  The objects draw from the *)
(* generators of the modules random and numpy.random, which belong to the   *)
(* process and not to an object.  Of a FishState the model keeps position,  *)
(* velocity, swim_phase and scale; yaw, pitch and roll are functions of the *)
(* velocity, the time and the swim_phase of the same step.                  *)

MaxAqFish == 2

MaxAqSteps == 2

\* math.sin(x), by Bhaskara's approximation on each half period (within
\* 0.002 of the sine)
SinHalf(p) == RDiv(1600 * p, RDiv(493480 - 4 * p, 100))

SinArc(y) ==
    IF y <= 31416 THEN SinHalf(RDiv(y * (31416 - y), S))
    ELSE -SinHalf(RDiv((y - 31416) * (62832 - y), S))

math_sin(x) == SinArc(x % TwoPi)

\* random.seed(seed); np.random.seed(seed) (lines 37-39): nothing is seeded
\* when seed is None
Seeded(g, seed) ==
    IF seed = None THEN g
    ELSE [np |-> [seed |-> seed, idx |-> 0], py |-> [seed |-> seed + 1, idx |-> 0]]

AqFishState(position, velocity, swim_phase, scale) ==
    [position |-> position, velocity |-> velocity, swim_phase |-> swim_phase, scale |-> scale]

\* (np.random.rand(3) - 0.5) * w, for the three values after position r.idx + k
Centered(r, k, w) ==
    <<Mul(RandomAt(r, k) - 5000, w[1]),
      Mul(RandomAt(r, k + 1) - 5000, w[2]),
      Mul(RandomAt(r, k + 2) - 5000, w[3])>>

\* one iteration of _init_school (lines 51-64): six values of numpy.random,
\* two of random
SchoolFish(tank_size, g) ==
    AqFishState(Centered(g.np, 0, <<tank_size[1], Mul(tank_size[2], 8000),
                                    Mul(tank_size[3], 8000)>>),
                Centered(g.np, 3, <<3000, 1800, 2400>>),
                Mul(RandomAt(g.py, 0), TwoPi),
                6500 + Mul(RandomAt(g.py, 1), 4000))

\* _init_school (lines 49-64)
RECURSIVE _init_school(_, _, _, _)
_init_school(n, tank_size, acc, g) ==
    IF n <= 0 THEN [fish |-> acc, g |-> g]
    ELSE _init_school(n - 1, tank_size, Append(acc, SchoolFish(tank_size, g)),
                      [np |-> Advance(g.np, 6), py |-> Advance(g.py, 2)])

\* _wander_force (lines 97-104): three values of numpy.random
_wander_force(f, time, r) ==
    _vec_add(_vec_add(_vec_scale(f.position, -3000), Centered(r, 0, <<1200, 800, 1000>>)),
             <<0, Mul(math_sin(Mul(time, 3000) + f.swim_phase), 600)
                     - Mul(f.position[2], 1200), 0>>)

\* np.clip(speed, 0.05, 0.35) (line 73)
Clip(x, lo, hi) == Max2(lo, Min2(hi, x))

\* line 74: (velocity / (speed + 1e-6)) * speed, where speed is already the
\* clipped value of line 73; this is velocity - velocity * 1e-6 / (speed + 1e-6)
Rescaled(v, speed) ==
    <<v[1] - RDiv(v[1], 100 * speed + 1),
      v[2] - RDiv(v[2], 100 * speed + 1),
      v[3] - RDiv(v[3], 100 * speed + 1)>>

\* lines 70-74
Accelerated(f, desired, dt) == _vec_add(f.velocity, _vec_scale(desired, dt))

Clipped(v) == Rescaled(v, Clip(_vec_length(v), 500, 3500))

\* lines 79-85 for one axis, limit = tank_size[axis] / 2
BounceAxis(f, axis, limit) ==
    IF f.position[axis] > limit
    THEN [f EXCEPT !.position[axis] = limit, !.velocity[axis] = Mul(@, -8500)]
    ELSE IF f.position[axis] < -limit
    THEN [f EXCEPT !.position[axis] = -limit, !.velocity[axis] = Mul(@, -8500)]
    ELSE f

\* lines 76-85
MovedAndBounced(f, v, dt, tank_size) ==
    BounceAxis(BounceAxis(BounceAxis(
        [f EXCEPT !.velocity = v, !.position = _vec_add(f.position, _vec_scale(v, dt))],
        1, tank_size[1] \div 2), 2, tank_size[2] \div 2), 3, tank_size[3] \div 2)

\* line 92
PhaseAdvanced(f, dt) == [f EXCEPT !.swim_phase = (@ + Mul(dt, 40000)) % TwoPi]

\* the body of the loop of step for one fish (lines 70-92)
StepFish(f, time, dt, tank_size, r) ==
    PhaseAdvanced(MovedAndBounced(f, Clipped(Accelerated(f, _wander_force(f, time, r), dt)),
                                  dt, tank_size), dt)

\* the loop of step over self.fish (lines 69-92): each fish takes the next
\* three values of numpy.random
RECURSIVE StepSchool(_, _, _, _, _, _)
StepSchool(fs, i, time, dt, tank_size, r) ==
    IF i > Len(fs) THEN [fish |-> fs, np |-> r]
    ELSE StepSchool([fs EXCEPT ![i] = StepFish(fs[i], time, dt, tank_size, r)],
                    i + 1, time, dt, tank_size, Advance(r, 3))

\* the tank_size every object of the model is built with (the default)
AqTank == <<25000, 12000, 14000>>

\* the seeds and the dt values of the model: 1/24 (the default) and 1.0
AqSeeds == {None, 1, 2}

AqDts == {417, S}

NoAq == [built |-> FALSE, seed |-> None, fish |-> <<>>, time |-> 0, dts |-> <<>>]

AqIdle ==
    /\ aq = [s \in SimIds |-> NoAq]
    /\ globalRandom = [np |-> [seed |-> 1, idx |-> 0], py |-> [seed |-> 2, idx |-> 0]]

AqBuilt(s, seed, school) ==
    /\ aq' = [aq EXCEPT ![s] = [built |-> TRUE, seed |-> seed, fish |-> school.fish,
                                time |-> 0, dts |-> <<>>]]
    /\ globalRandom' = school.g

\* AquariumSimulation(tank_size, fish_count, seed) (lines 31-46)
AquariumSimulation(s, fish_count, seed) ==
    /\ ~aq[s].built
    /\ AqBuilt(s, seed, _init_school(fish_count, AqTank, <<>>, Seeded(globalRandom, seed)))
    /\ UNCHANGED <<simVars, vecVars, tankVars, tool, srvVars>>

AqStepped(s, dt, res) ==
    /\ aq' = [aq EXCEPT ![s].fish = res.fish, ![s].time = @ + dt, ![s].dts = Append(@, dt)]
    /\ globalRandom' = [globalRandom EXCEPT !.np = res.np]

\* AquariumSimulation.step(dt) (lines 67-94)
AquariumSimulation_step(s, dt) ==
    /\ aq[s].built
    /\ Len(aq[s].dts) < MaxAqSteps
    /\ AqStepped(s, dt, StepSchool(aq[s].fish, 1, aq[s].time, dt, AqTank, globalRandom.np))
    /\ UNCHANGED <<simVars, vecVars, tankVars, tool, srvVars>>

AqConstructAny ==
    \E s \in SimIds, n \in 0 .. MaxAqFish, seed \in AqSeeds : AquariumSimulation(s, n, seed)

AqStepAny == \E s \in SimIds, dt \in AqDts : AquariumSimulation_step(s, dt)

NextAq == AqConstructAny \/ AqStepAny

-----------------------------------------------------------------------------
(* main.py: the server.  One asyncio event loop runs the simulation_loop   *)
(* coroutine and one websocket_endpoint coroutine for each connection; a   *)
(* coroutine runs until its next await, so an action is the code between   *)
(* two awaits.  Whether a send, an accept or a receive raises is chosen by *)
(* the environment.  Of each Fish of the server's tank this part keeps the *)
(* number of Fish.step calls applied to it (the fields of a Fish are       *)
(* modelled above).                                                        *)

MaxClients == 2

MaxTicks == 2

Clients == 1 .. MaxClients

InList(a, w) == \E i \in 1 .. Len(a) : a[i] = w

\* what list.remove gives for a value that is not in the list (no connection
\* has this id)
ValueError == <<-1>>

\* list.remove(w): the first occurrence is removed
RECURSIVE list_remove(_, _)
list_remove(a, w) ==
    IF a = <<>> THEN <<>>
    ELSE IF Head(a) = w THEN Tail(a)
    ELSE <<Head(a)>> \o list_remove(Tail(a), w)

\* list.remove raises ValueError for a value that is not in the list
disconnect_unguarded(a, w) == IF InList(a, w) THEN list_remove(a, w) ELSE ValueError

\* ConnectionManager.disconnect (lines 148-150)
disconnect(a, w) == IF InList(a, w) THEN list_remove(a, w) ELSE a

\* for ws in dead: self.disconnect(ws) (lines 160-161)
RECURSIVE disconnect_dead(_, _, _)
disconnect_dead(a, dead, i) ==
    IF i > Len(dead) \/ a = ValueError THEN a
    ELSE disconnect_dead(disconnect(a, dead[i]), dead, i + 1)

tick_first_fish_only(stepped) == [stepped EXCEPT ![1] = @ + 1]

\* Tank.step (lines 130-132): every Fish is stepped once; there is no await
\* in Tank.step or Fish.step
tank_step(stepped) == [i \in DOMAIN stepped |-> stepped[i] + 1]

\* Tank.snapshot (lines 134-135): one record for each fish, no await
snapshot(stepped) ==
    [type |-> "state", fish |-> [i \in DOMAIN stepped |-> [id |-> i - 1, stepped |-> stepped[i]]]]

NoMessage == [type |-> "none", fish |-> <<>>]

NoConn == [pc |-> "new", pending |-> NoMessage, dropped |-> FALSE]

\* no broadcast in progress
NoBroadcast ==
    [message |-> NoMessage, idx |-> 0, target |-> 0, dead |-> <<>>,
     atStart |-> {}, removed |-> {}, sentTo |-> <<>>, raised |-> {}]

\* tank = Tank(FISH_COUNT) and manager = ConnectionManager() at import (lines
\* 137 and 163), simulation_loop created at startup (lines 193-196)
ServerIdle ==
    /\ active = <<>>
    /\ conn = [w \in Clients |-> NoConn]
    /\ loop = [pc |-> "ready", ticks |-> 0, stepped |-> [i \in 1 .. MaxTankFish |-> 0],
               bc |-> NoBroadcast]

\* a client connects: websocket_endpoint starts and waits in ws.accept()
\* (lines 171-172, 145)
EndpointConnect(w) ==
    /\ conn[w].pc = "new"
    /\ conn' = [conn EXCEPT ![w].pc = "accepting"]
    /\ UNCHANGED <<active, loop, simVars, vecVars, tankVars, tool, aqVars>>

\* ws.accept() returns: line 146, then line 175 up to its await
EndpointAccepted(w) ==
    /\ conn[w].pc = "accepting"
    /\ active' = Append(active, w)
    /\ conn' = [conn EXCEPT ![w].pc = "initial_send", ![w].pending = snapshot(loop.stepped)]
    /\ UNCHANGED <<loop, simVars, vecVars, tankVars, tool, aqVars>>

\* ws.accept() raises: connect is called outside the try of line 173
EndpointAcceptRaises(w) ==
    /\ conn[w].pc = "accepting"
    /\ conn' = [conn EXCEPT ![w].pc = "closed"]
    /\ UNCHANGED <<active, loop, simVars, vecVars, tankVars, tool, aqVars>>

\* the send of line 175 returns: the coroutine waits in receive_text
EndpointInitialSent(w) ==
    /\ conn[w].pc = "initial_send"
    /\ conn' = [conn EXCEPT ![w].pc = "receiving", ![w].pending = NoMessage]
    /\ UNCHANGED <<active, loop, simVars, vecVars, tankVars, tool, aqVars>>

\* the connection w leaves `active` by manager.disconnect(w) called from its
\* endpoint, with what the model remembers of a broadcast in progress
Disconnected(w, a) ==
    /\ active' = (IF a = ValueError THEN active ELSE a)
    /\ conn' = [conn EXCEPT ![w].pc = (IF a = ValueError THEN "crashed" ELSE "closed"),
                            ![w].pending = NoMessage]
    /\ loop' = [loop EXCEPT !.bc.removed =
                   IF loop.pc \in {"broadcast", "sending"} THEN @ \cup {w} ELSE @]

\* the send of line 175 or receive_text raises (lines 179-182)
EndpointDisconnect(w) ==
    /\ conn[w].pc \in {"initial_send", "receiving"}
    /\ Disconnected(w, disconnect(active, w))
    /\ UNCHANGED <<simVars, vecVars, tankVars, tool, aqVars>>

\* broadcast(message) up to its first await (lines 154-155)
BroadcastStarted(l, a) ==
    [l EXCEPT !.pc = "broadcast",
              !.bc = [NoBroadcast EXCEPT !.message = snapshot(l.stepped),
                                         !.atStart = {a[i] : i \in 1 .. Len(a)}]]

\* simulation_loop from tank.step(tick) to its next await (lines 188-191)
Ticked(l, a) ==
    IF a # <<>> THEN BroadcastStarted(l, a) ELSE [l EXCEPT !.pc = "sleeping", !.bc = NoBroadcast]

LoopTick ==
    /\ loop.pc = "ready"
    /\ loop.ticks < MaxTicks
    /\ loop' = Ticked([loop EXCEPT !.ticks = @ + 1, !.stepped = tank_step(@)], active)
    /\ UNCHANGED <<active, conn, simVars, vecVars, tankVars, tool, aqVars>>

\* the end of broadcast: the dead connections are removed (lines 160-161) and
\* simulation_loop waits in asyncio.sleep (line 191)
BroadcastReturned(a) ==
    /\ active' = (IF a = ValueError THEN active ELSE a)
    /\ loop' = [loop EXCEPT !.pc = (IF a = ValueError THEN "crashed" ELSE "sleeping")]
    /\ conn' = [w \in Clients |->
                   IF InList(loop.bc.dead, w) THEN [conn[w] EXCEPT !.dropped = TRUE] ELSE conn[w]]

\* the for loop of line 155 takes the next element of the list `active` as it
\* is now, and waits in send_text; or the loop is over
BroadcastNext ==
    /\ loop.pc = "broadcast"
    /\ IF loop.bc.idx < Len(active)
       THEN /\ loop' = [loop EXCEPT !.pc = "sending",
                                    !.bc.target = active[loop.bc.idx + 1],
                                    !.bc.idx = @ + 1]
            /\ UNCHANGED <<active, conn>>
       ELSE BroadcastReturned(disconnect_dead(active, loop.bc.dead, 1))
    /\ UNCHANGED <<simVars, vecVars, tankVars, tool, aqVars>>

\* send_text returns (line 157)
BroadcastSent ==
    /\ loop.pc = "sending"
    /\ loop' = [loop EXCEPT !.pc = "broadcast", !.bc.sentTo = Append(@, loop.bc.target)]
    /\ UNCHANGED <<active, conn, simVars, vecVars, tankVars, tool, aqVars>>

\* send_text raises: except Exception (lines 158-159)
send_raised(l) ==
    [l EXCEPT !.pc = "broadcast", !.bc.dead = Append(@, l.bc.target),
              !.bc.raised = @ \cup {l.bc.target}]

BroadcastSendRaises ==
    /\ loop.pc = "sending"
    /\ loop' = send_raised(loop)
    /\ UNCHANGED <<active, conn, simVars, vecVars, tankVars, tool, aqVars>>

\* asyncio.sleep(tick) returns
LoopWake ==
    /\ loop.pc = "sleeping"
    /\ loop' = [loop EXCEPT !.pc = "ready"]
    /\ UNCHANGED <<active, conn, simVars, vecVars, tankVars, tool, aqVars>>

NextServer ==
    \/ \E w \in Clients : EndpointConnect(w)
    \/ \E w \in Clients : EndpointAccepted(w)
    \/ \E w \in Clients : EndpointAcceptRaises(w)
    \/ \E w \in Clients : EndpointInitialSent(w)
    \/ \E w \in Clients : EndpointDisconnect(w)
    \/ LoopTick
    \/ BroadcastNext
    \/ BroadcastSent
    \/ BroadcastSendRaises
    \/ LoopWake

-----------------------------------------------------------------------------
(* tools/check_merge_with_branch.py                                        *)

(* One run of main(argv).  Every git command is a step whose return code   *)
(* is chosen by the environment.  tool.log is the list of the git commands *)
(* run and the directory given to each with -C; tool.tmpdir and            *)
(* tool.worktree are the temporary directory on disk and its registration  *)
(* as a worktree of the repository.                                        *)

\* the target argument, split at the first "/" (line 58)
ToolTargets == {<<"origin", "master">>, <<"origin", "">>, <<"upstream", "dev">>}

\* the remotes `git remote` can list
ToolRemotes == SUBSET {"origin", "upstream"}

\* the return codes of a git command
ReturnCodes == {0, 1, 128}

NoTool ==
    [pc |-> "idle", remote |-> "", remote_ref |-> "", remotes |-> {},
     tmpdir |-> "none", worktree |-> FALSE, merging |-> FALSE, merge_rc |-> 0,
     pending |-> "none", result |-> "none", log |-> <<>>]

ToolIdle == tool = NoTool

\* main returns the exit status rc
Returns(rc) ==
    CASE rc = 0 -> "return 0" [] rc = 1 -> "return 1" [] rc = 2 -> "return 2"
      [] rc = 128 -> "return 128"

\* subprocess.run(["git", "-C", dir, ...]) was called
Ran(t, cmd, dir) == [t EXCEPT !.log = Append(@, [cmd |-> cmd, dir |-> dir])]

\* a return statement or an exception outside the try block (lines 84-105)
Leave(t, outcome) == [t EXCEPT !.pc = "returned", !.result = outcome]

LeaveTryNoFinally(t, outcome) == [t EXCEPT !.pc = "returned", !.result = outcome]

\* a return statement or an exception inside the try block (lines 107-132):
\* the finally clause runs before main is left
LeaveTry(t, outcome) == [t EXCEPT !.pc = "finally_remove", !.pending = outcome]

\* main(argv) is called (lines 74-84); remainder = "HEAD" if the target has
\* no "/" (lines 58-60)
ToolStart(target, remotes) ==
    /\ tool.pc = "idle"
    /\ tool' = [tool EXCEPT !.pc = "ensure_remote",
                            !.remote = target[1],
                            !.remote_ref = IF target[2] = "" THEN "HEAD" ELSE target[2],
                            !.remotes = remotes]
    /\ UNCHANGED <<simVars, vecVars, tankVars, aqVars, srvVars>>

\* ensure_remote_available (lines 62-71, 86-90): `git remote` is run with
\* check=True, so its failure leaves main with CalledProcessError
EnsureRemote(t, rc) ==
    IF rc # 0 THEN Leave(t, "CalledProcessError")
    ELSE IF t.remote \notin t.remotes THEN Leave(t, Returns(2))
    ELSE [t EXCEPT !.pc = "fetch"]

ToolEnsureRemote(rc) ==
    /\ tool.pc = "ensure_remote"
    /\ tool' = EnsureRemote(Ran(tool, "remote", "repo"), rc)
    /\ UNCHANGED <<simVars, vecVars, tankVars, aqVars, srvVars>>

\* lines 92-97
Fetch(t, rc) == IF rc # 0 THEN Leave(t, Returns(rc)) ELSE [t EXCEPT !.pc = "verify"]

ToolFetch(rc) ==
    /\ tool.pc = "fetch"
    /\ tool' = Fetch(Ran(tool, "fetch", "repo"), rc)
    /\ UNCHANGED <<simVars, vecVars, tankVars, aqVars, srvVars>>

\* lines 99-103
Verify(t, rc) == IF rc # 0 THEN Leave(t, Returns(rc)) ELSE [t EXCEPT !.pc = "mkdtemp"]

ToolVerify(rc) ==
    /\ tool.pc = "verify"
    /\ tool' = Verify(Ran(tool, "rev-parse", "repo"), rc)
    /\ UNCHANGED <<simVars, vecVars, tankVars, aqVars, srvVars>>

\* line 105: tempfile.mkdtemp creates the directory
ToolMkdtemp ==
    /\ tool.pc = "mkdtemp"
    /\ tool' = [tool EXCEPT !.pc = "worktree_add", !.tmpdir = "exists"]
    /\ UNCHANGED <<simVars, vecVars, tankVars, aqVars, srvVars>>

\* lines 108-113: git -C repo worktree add --detach tmpdir HEAD
WorktreeAdd(t, rc) ==
    IF rc # 0 THEN LeaveTry(t, Returns(rc))
    ELSE [t EXCEPT !.pc = "merge", !.worktree = TRUE]

ToolWorktreeAdd(rc) ==
    /\ tool.pc = "worktree_add"
    /\ tool' = WorktreeAdd(Ran(tool, "worktree add", "repo"), rc)
    /\ UNCHANGED <<simVars, vecVars, tankVars, aqVars, srvVars>>

\* the outcomes of the subprocess.run of a merge command: return code 0,
\* return code 1, or an exception of subprocess.run itself
MergeOutcomes == {"clean", "conflict", "OSError"}

\* lines 115-119: git -C tmpdir merge --no-commit --no-ff full_target
Merge(t, outcome) ==
    IF outcome = "OSError" THEN LeaveTry(t, "OSError")
    ELSE [t EXCEPT !.pc = "abort", !.merging = TRUE,
                   !.merge_rc = IF outcome = "clean" THEN 0 ELSE 1]

ToolMerge(outcome) ==
    /\ tool.pc = "merge"
    /\ tool' = Merge(Ran(tool, "merge", "tmpdir"), outcome)
    /\ UNCHANGED <<simVars, vecVars, tankVars, aqVars, srvVars>>

\* lines 122-132: git -C tmpdir merge --abort, then return 0 or 1
Abort(t, outcome) ==
    IF outcome = "OSError" THEN LeaveTry(t, "OSError")
    ELSE LeaveTry([t EXCEPT !.merging = FALSE], Returns(IF t.merge_rc = 0 THEN 0 ELSE 1))

ToolAbort(outcome) ==
    /\ tool.pc = "abort"
    /\ tool' = Abort(Ran(tool, "merge --abort", "tmpdir"), outcome)
    /\ UNCHANGED <<simVars, vecVars, tankVars, aqVars, srvVars>>

\* line 135: git -C repo worktree remove --force tmpdir, check=False.  It
\* removes a registered worktree with its directory and fails, unnoticed,
\* when tmpdir is not a worktree
WorktreeRemove(t) ==
    IF t.worktree
    THEN [t EXCEPT !.pc = "finally_rmtree", !.worktree = FALSE, !.merging = FALSE,
                   !.tmpdir = "deleted"]
    ELSE [t EXCEPT !.pc = "finally_rmtree"]

ToolFinallyRemove ==
    /\ tool.pc = "finally_remove"
    /\ tool' = WorktreeRemove(Ran(tool, "worktree remove", "repo"))
    /\ UNCHANGED <<simVars, vecVars, tankVars, aqVars, srvVars>>

\* line 136: shutil.rmtree(tmpdir, ignore_errors=True), then main is left with
\* the pending return value or exception
ToolFinallyRmtree ==
    /\ tool.pc = "finally_rmtree"
    /\ tool' = [tool EXCEPT !.pc = "returned", !.tmpdir = "deleted", !.result = tool.pending]
    /\ UNCHANGED <<simVars, vecVars, tankVars, aqVars, srvVars>>

NextTool ==
    \/ \E target \in ToolTargets, remotes \in ToolRemotes : ToolStart(target, remotes)
    \/ \E rc \in ReturnCodes : ToolEnsureRemote(rc)
    \/ \E rc \in ReturnCodes : ToolFetch(rc)
    \/ \E rc \in ReturnCodes : ToolVerify(rc)
    \/ ToolMkdtemp
    \/ \E rc \in ReturnCodes : ToolWorktreeAdd(rc)
    \/ \E outcome \in MergeOutcomes : ToolMerge(outcome)
    \/ \E outcome \in MergeOutcomes : ToolAbort(outcome)
    \/ ToolFinallyRemove
    \/ ToolFinallyRmtree

-----------------------------------------------------------------------------
(* Specifications                                                          *)

Init == SimInit /\ VecIdle /\ TankIdle /\ ToolIdle /\ AqIdle /\ ServerIdle

ConstructOne == \E args \in ConstructArgs, fresh \in Seeds : Construct(1, args, fresh)

PlaceOne == \E fl \in PlaceScenarios : Place(1, fl)

StepOne == \E dt \in DtValues : Step(1, dt)

Next == ConstructOne \/ PlaceOne \/ StepOne

\* one simulator: construction, scenario set-up, steps
Spec == Init /\ [][Next]_vars

-----------------------------------------------------------------------------
(* Claims checked under Spec                                               *)

\* what rounding to 1 / S can add to or take from a length: 0.0005
RoundTol == S \div 2000

Stepped(s) == constructed[s] /\ hist[s].dts # <<>> /\ ~hist[s].raised

LastDt(s) == hist[s].dts[Len(hist[s].dts)]

Half(c, axis) == Mul(c.tank[axis], 5000)

InTank(f, c) == \A axis \in 1 .. 3 : Abs(f.position[axis]) <= Half(c, axis)

\* the fish of s are those the constructor spawned, stepped
Spawned(s) == Stepped(s) /\ ValidConfig(cfg[s]) /\ ~hist[s].placed

\* C1: after every step, for a valid configuration, the speed of every fish
\* lies in [min_speed, max_speed] (already for the fish the constructor
\* spawned, with no fish placed by a caller)
C1_SpeedWithinBounds ==
    \A s \in SimIds : Spawned(s) =>
        \A i \in 1 .. Len(fish[s]) :
            /\ _vec_length(fish[s][i].velocity) >= cfg[s].min_speed - RoundTol
            /\ _vec_length(fish[s][i].velocity) <= cfg[s].max_speed + RoundTol

\* C2: a fish that started inside the tank is inside the tank after every
\* step, or at least is not outside it after two consecutive steps (already
\* for the fish the constructor spawned, which all start inside the tank)
C2_PositionWithinTank ==
    \A s \in SimIds : Spawned(s) /\ Len(hist[s].dts) >= 2 =>
        \A i \in 1 .. Len(fish[s]) :
            InTank(prev[s].fish[i], cfg[s]) \/ InTank(fish[s][i], cfg[s])

\* C3: a single fish at x = +tank[0]/2 with velocity (v, 0, 0), v > 0, has
\* after one step position x = tank[0]/2 and a negative velocity x smaller in
\* magnitude than v
C3_BoundaryFishReflected ==
    \A s \in SimIds :
        (/\ Stepped(s) /\ ValidConfig(cfg[s]) /\ Len(hist[s].dts) = 1
         /\ Len(prev[s].fish) = 1
         /\ prev[s].fish[1].position[1] = Half(cfg[s], 1)
         /\ prev[s].fish[1].velocity[1] > 0
         /\ prev[s].fish[1].velocity[2] = 0 /\ prev[s].fish[1].velocity[3] = 0)
        => /\ fish[s][1].position[1] = Half(cfg[s], 1)
           /\ fish[s][1].velocity[1] < 0
           /\ -fish[s][1].velocity[1] < prev[s].fish[1].velocity[1]

\* C4: no simulator object exists for an invalid configuration
C4_InvalidConfigRejected ==
    \A s \in SimIds : constructed[s] => ValidConfig(cfg[s])

\* every position the generator of simulator s can be in
RngStates(s) == {[seed |-> rng[s].seed, idx |-> k] : k \in 0 .. Len(StreamOf(rng[s].seed)) - 1}

\* C7: after a step, the state of every fish is the loop body applied to the
\* list of fish and the centroid of before the step (and the generator)
C7_UpdateReadsPreStepStates ==
    \A s \in SimIds : Stepped(s) /\ Len(prev[s].fish) > 0 =>
        /\ Len(fish[s]) = Len(prev[s].fish)
        /\ \A i \in 1 .. Len(fish[s]) :
              \E r \in RngStates(s) :
                  fish[s][i] = UpdateFish(prev[s].fish, i, Center(prev[s].fish),
                                          cfg[s], r, LastDt(s)).state

\* two fish within reach of each other's separation term were stepped and the
\* first one moved
C7_Witness ==
    /\ Stepped(1) /\ Len(fish[1]) >= 2
    /\ prev[1].fish[1].position # prev[1].fish[2].position
    /\ _vec_length(_vec_sub(prev[1].fish[1].position, prev[1].fish[2].position))
          <= cfg[1].separation_distance
    /\ fish[1][1].position # prev[1].fish[1].position

\* C8: step never raises for a valid configuration
C8_StepNeverRaises ==
    \A s \in SimIds : constructed[s] /\ ValidConfig(cfg[s]) => ~hist[s].raised

\* a flock of coincident fish with zero velocity was stepped
C8_Witness ==
    /\ Stepped(1) /\ ValidConfig(cfg[1]) /\ Len(prev[1].fish) >= 2
    /\ prev[1].fish[1].position = prev[1].fish[2].position
    /\ prev[1].fish[1].velocity = Zero3

\* every component of u is within rounding of the component of v
NearVec(u, v) == u # Raised /\ \A k \in 1 .. 3 : Abs(u[k] - v[k]) <= RoundTol

\* C14: at spawn and after every step, the forward column of the orientation
\* of every fish is its normalized velocity
C14_ForwardIsHeading ==
    \A s \in SimIds : constructed[s] /\ ~hist[s].placed =>
        \A i \in 1 .. Len(fish[s]) :
            NearVec(forward(fish[s][i]), _vec_normalize(fish[s][i].velocity))

\* a spawned fish was stepped and turned: its heading is neither the one it
\* had before the step nor zero
C14_Witness ==
    /\ Spawned(1) /\ Len(fish[1]) >= 1
    /\ forward(fish[1][1]) # forward(prev[1].fish[1])
    /\ forward(fish[1][1]) # Zero3
    /\ NearVec(forward(fish[1][1]), _vec_normalize(fish[1][1].velocity))

\* the distance of two angles on the circle of circumference 2 pi
PhaseGap(x, y) == Min2((x - y) % TwoPi, (y - x) % TwoPi)

\* C15: the phase of every fish is in [0, 2 pi) at spawn and after every
\* step, and a step(dt) advances it by 1.8 * (speed after the step) * dt
\* modulo 2 pi
C15_PhaseAdvancesWithSpeed ==
    \A s \in SimIds : constructed[s] /\ ValidConfig(cfg[s]) /\ ~hist[s].placed =>
        \A i \in 1 .. Len(fish[s]) :
            /\ fish[s][i].phase >= 0 /\ fish[s][i].phase < TwoPi
            /\ Stepped(s) =>
                  PhaseGap(fish[s][i].phase - prev[s].fish[i].phase,
                           Mul(Mul(_vec_length(fish[s][i].velocity), LastDt(s)), 18000))
                      <= RoundTol

\* a flock of FlockSize fish at one point, all with zero velocity
FlockAtRest(fs) ==
    /\ Len(fs) = FlockSize
    /\ \A i \in 1 .. Len(fs) : fs[i].position = fs[1].position /\ fs[i].velocity = Zero3

\* the test of line 156 on the steered vector
FallbackOf(steered) == steered # Raised /\ LtEps(_vec_length(steered))

TakesFallback(view, idx, c) ==
    FallbackOf(Steer(DesiredRaw(view, idx, Center(view), c), view[idx].position, c))

\* C12: one step of a flock of 10 fish at one point P with zero velocity adds
\* nothing to any separation vector, every fish takes the random-direction
\* branch and ends the step with a speed of min_speed
C12_FlockAtRestFallsBack ==
    \A s \in SimIds :
        Stepped(s) /\ Len(hist[s].dts) = 1 /\ FlockAtRest(prev[s].fish) =>
            \A i \in 1 .. Len(fish[s]) :
                /\ SeparationVec(prev[s].fish, i, 1, cfg[s], Zero3) = Zero3
                /\ TakesFallback(prev[s].fish, i, cfg[s])
                /\ Abs(_vec_length(fish[s][i].velocity) - cfg[s].min_speed) <= RoundTol

\* the other fish of a pair
OtherOf(i) == 3 - i

\* twice the scalar product of the displacement of fish i in the last step
\* with the direction from the other fish to fish i, before the step
AwayComponent(s, i) ==
    DotRaw(_vec_sub(fish[s][i].position, prev[s].fish[i].position),
           _vec_sub(prev[s].fish[i].position, prev[s].fish[OtherOf(i)].position))

WithinSpeedBounds(f, c) ==
    _vec_length(f.velocity) >= c.min_speed /\ _vec_length(f.velocity) <= c.max_speed

\* C13: two fish separation_distance / 2 apart, with velocities within the
\* speed bounds: after one step the displacement of each has a strictly
\* positive component along the direction away from the other
C13_PairMovesApart ==
    \A s \in SimIds :
        (/\ Stepped(s) /\ Len(hist[s].dts) = 1 /\ Len(prev[s].fish) = 2
         /\ 2 * _vec_length(_vec_sub(prev[s].fish[1].position, prev[s].fish[2].position))
               = cfg[s].separation_distance
         /\ \A i \in 1 .. 2 : WithinSpeedBounds(prev[s].fish[i], cfg[s]))
        => \A i \in 1 .. 2 : AwayComponent(s, i) > 0

\* the unit vector from the other fish, multiplied by 1 / dist
InverseDistanceTerm(diff, dist, c) ==
    IF GtEps(dist) /\ dist < c.separation_distance
    THEN _vec_scale_inv(_vec_scale_inv(diff, dist), dist)
    ELSE Zero3

\* the sum of the terms of the fish from place j on, other than fish idx
RECURSIVE InverseDistanceSum(_, _, _, _)
InverseDistanceSum(view, idx, j, c) ==
    IF j > Len(view) THEN Zero3
    ELSE IF j = idx THEN InverseDistanceSum(view, idx, j + 1, c)
    ELSE _vec_add(InverseDistanceTerm(_vec_sub(view[idx].position, view[j].position),
                                      _vec_length(_vec_sub(view[idx].position,
                                                           view[j].position)), c),
                  InverseDistanceSum(view, idx, j + 1, c))

\* C23: the separation vector a step computes for fish i is the sum, over the
\* other fish j with 1e-6 < distance < separation_distance, of the unit vector
\* from j to i multiplied by 1 / distance
C23_SeparationInverseDistance ==
    \A s \in SimIds : Stepped(s) /\ ValidConfig(cfg[s]) =>
        \A i \in 1 .. Len(prev[s].fish) :
            SeparationVec(prev[s].fish, i, 1, cfg[s], Zero3)
                = InverseDistanceSum(prev[s].fish, i, 1, cfg[s])

\* C24: with min_speed > 0, after every step every fish has a velocity other
\* than zero and a position other than the one it had before the step
C24_NoFishStalls ==
    \A s \in SimIds : Stepped(s) /\ ValidConfig(cfg[s]) /\ cfg[s].min_speed > 0 =>
        \A i \in 1 .. Len(fish[s]) :
            /\ fish[s][i].velocity # Zero3
            /\ fish[s][i].position # prev[s].fish[i].position

\* the damping changes no component of w but towards zero
OnlyReduces(w, damped) ==
    \A k \in 1 .. 3 :
        /\ Abs(damped[k]) <= Abs(w[k])
        /\ w[k] >= 0 => damped[k] >= 0
        /\ w[k] <= 0 => damped[k] <= 0

\* the damping first, the wall correction after it
DampThenWall(raw, pos, c) == WallCorrect(SurfaceDamp(raw, pos, c), pos, c.tank)

\* the vector of lines 135-137 of fish i in the last step of s
RawOf(s, i) == DesiredRaw(prev[s].fish, i, Center(prev[s].fish), cfg[s])

\* C26: in every step the surface damping is applied to the desired vector
\* before the wall correction, and it changes no component but towards zero
C26_DampingBeforeWallOnlyReduces ==
    \A s \in SimIds : Stepped(s) /\ ValidConfig(cfg[s]) =>
        \A i \in 1 .. Len(prev[s].fish) :
            /\ Steer(RawOf(s, i), prev[s].fish[i].position, cfg[s])
                  = DampThenWall(RawOf(s, i), prev[s].fish[i].position, cfg[s])
            /\ OnlyReduces(WallCorrect(RawOf(s, i), prev[s].fish[i].position, cfg[s].tank),
                           Steer(RawOf(s, i), prev[s].fish[i].position, cfg[s]))

-----------------------------------------------------------------------------
(* Steps with a dt of either sign: step checks no argument (line 113)      *)

SignedDtValues == {-(S \div 2), S \div 2}

StepSigned == \E dt \in SignedDtValues : Step(1, dt)

NextSigned == ConstructOne \/ PlaceOne \/ StepSigned

SpecSigned == Init /\ [][NextSigned]_vars

\* the desired direction of fish i in the last step of s, on the branch of
\* line 160
DesiredDirOf(s, i) ==
    _vec_normalize_unguarded(Steer(DesiredRaw(prev[s].fish, i, Center(prev[s].fish), cfg[s]),
                                   prev[s].fish[i].position, cfg[s]))

\* the heading after the step is no further from the heading before it than
\* the desired direction is: cos(new, old) >= cos(old, desired)
TurnWithinDesired(old_dir, new_dir, desired) ==
    DotRaw(new_dir, old_dir) >= DotRaw(old_dir, desired) - 4 * S * RoundTol

\* C25: every step passes _slerp a blend value in [0, 1], whatever dt is, and
\* no fish turns further from its heading than its desired direction lies
C25_BlendWithinUnitInterval ==
    \A s \in SimIds : Stepped(s) /\ ValidConfig(cfg[s]) /\ cfg[s].turn_rate >= 0 =>
        /\ BlendOf(cfg[s], LastDt(s)) >= 0
        /\ BlendOf(cfg[s], LastDt(s)) <= S
        /\ \A i \in 1 .. Len(fish[s]) :
              (/\ ~TakesFallback(prev[s].fish, i, cfg[s])
               /\ prev[s].fish[i].velocity # Zero3
               /\ fish[s][i].velocity # Zero3)
              => TurnWithinDesired(_vec_normalize(prev[s].fish[i].velocity),
                                   _vec_normalize(fish[s][i].velocity),
                                   DesiredDirOf(s, i))

-----------------------------------------------------------------------------
(* The merge check tool                                                    *)

SpecTool == Init /\ [][NextTool]_vars

\* the git commands that change no file of the working tree they are run in
WorkingTreeSafe == {"remote", "fetch", "rev-parse", "worktree add", "worktree remove"}

-----------------------------------------------------------------------------
(* The server's tank on its own                                            *)

NextTank == TankConstructAny \/ TankStepAny

SpecTank == Init /\ [][NextTank]_vars

\* the margin-adjusted limits of axis k (lines 94-96)
LimitLow(k) == IF k = 3 THEN 800 ELSE 500

LimitHigh(k) == IF k = 3 THEN 9200 ELSE 9500

\* fish i in the last step, after the move of line 91 and before the bounces
BeforeBounce(i) ==
    AfterMove(tankLast.fish[i],
              Steered(tankLast.fish[i], tankLast.draws[i], tankLast.dt), tankLast.dt)

ClampedLow(i, k) == BeforeBounce(i).pos[k] < LimitLow(k)

ClampedHigh(i, k) == BeforeBounce(i).pos[k] > LimitHigh(k)

NumClamped(i) == Cardinality({k \in 1 .. 3 : ClampedLow(i, k) \/ ClampedHigh(i, k)})

\* neither of the random speed changes of lines 101-104 was drawn
NoSpeedDraw(i) == tankLast.draws[i].r1 >= 500 /\ tankLast.draws[i].r2 >= 500

\* speed * WALL_BOUNCE, kept at least SPEED_MIN, n times over
RECURSIVE BounceTimes(_, _)
BounceTimes(speed, n) ==
    IF n = 0 THEN speed ELSE BounceTimes(Max2(SPEED_MIN, Mul(speed, WALL_BOUNCE)), n - 1)

TankFishIds == 1 .. Len(tank.fish)

\* C19: for every Fish of the Tank, at construction and after every step,
\* SPEED_MIN <= speed <= SPEED_MAX and dir is a unit vector
C19_ServerSpeedAndDir ==
    tank.built =>
        \A i \in TankFishIds :
            /\ tank.fish[i].speed >= SPEED_MIN /\ tank.fish[i].speed <= SPEED_MAX
            /\ Abs(_vec_length(tank.fish[i].dir) - S) <= RoundTol

\* in one step a fish bounced whose speed * WALL_BOUNCE is below SPEED_MIN,
\* and the x1.05 change was drawn for a fish at SPEED_MAX
C19_Witness ==
    /\ tank.built /\ tank.steps >= 1
    /\ \E i \in TankFishIds :
          /\ NumClamped(i) >= 1 /\ NoSpeedDraw(i)
          /\ Mul(tankLast.fish[i].speed, WALL_BOUNCE) < SPEED_MIN
          /\ tank.fish[i].speed = SPEED_MIN
    /\ \E j \in TankFishIds :
          /\ NumClamped(j) = 0 /\ tankLast.draws[j].r1 < 500
          /\ tankLast.fish[j].speed = SPEED_MAX
          /\ tank.fish[j].speed = SPEED_MAX

\* C20: after every Fish.step each coordinate is within its limits; on an axis
\* clamped in that step dir and velocity point back into the tank; and the
\* speed was multiplied by WALL_BOUNCE, but kept at least SPEED_MIN, once for
\* every clamped axis
C20_ClampedAndTurnedBack ==
    tank.built /\ tank.steps >= 1 =>
        \A i \in TankFishIds :
            /\ \A k \in 1 .. 3 :
                  /\ tank.fish[i].pos[k] >= LimitLow(k) /\ tank.fish[i].pos[k] <= LimitHigh(k)
                  /\ ClampedLow(i, k) =>
                        /\ tank.fish[i].pos[k] = LimitLow(k)
                        /\ tank.fish[i].dir[k] >= 0 /\ tank.fish[i].velocity[k] >= 0
                  /\ ClampedHigh(i, k) =>
                        /\ tank.fish[i].pos[k] = LimitHigh(k)
                        /\ tank.fish[i].dir[k] <= 0 /\ tank.fish[i].velocity[k] <= 0
            /\ tank.fish[i].speed >= SPEED_MIN
            /\ NoSpeedDraw(i) =>
                  tank.fish[i].speed = BounceTimes(tankLast.fish[i].speed, NumClamped(i))

\* a fish that started inside the limits of the x axis crossed its upper limit
\* in a step, was put back on it, heads back and lost speed
C20_Witness ==
    /\ tank.built /\ tank.steps >= 1
    /\ \E i \in TankFishIds :
          /\ tankLast.fish[i].pos[1] >= LimitLow(1) /\ tankLast.fish[i].pos[1] <= LimitHigh(1)
          /\ ClampedHigh(i, 1) /\ NoSpeedDraw(i)
          /\ tank.fish[i].pos[1] = LimitHigh(1)
          /\ tank.fish[i].dir[1] < 0 /\ tank.fish[i].velocity[1] < 0
          /\ tank.fish[i].speed < tankLast.fish[i].speed

\* C30: after every Fish.step the velocity of a fish is its direction times
\* its speed, and flip is -1 exactly when velocity[0] < 0
C30_FishFieldsConsistent ==
    tank.built /\ tank.steps >= 1 =>
        \A i \in TankFishIds :
            /\ tank.fish[i].velocity = _vec_scale(tank.fish[i].dir, tank.fish[i].speed)
            /\ tank.fish[i].flip = -1 <=> tank.fish[i].velocity[1] < 0

-----------------------------------------------------------------------------
(* python_sim: AquariumSimulation objects in one process                   *)

SpecAq == Init /\ [][NextAq]_vars

\* C21: after every step of an AquariumSimulation the speed of every fish is
\* within [0.05, 0.35]
C21_AquariumSpeedClipped ==
    \A s \in SimIds : aq[s].built /\ aq[s].dts # <<>> =>
        \A i \in 1 .. Len(aq[s].fish) :
            /\ _vec_length(aq[s].fish[i].velocity) >= 500 - RoundTol
            /\ _vec_length(aq[s].fish[i].velocity) <= 3500 + RoundTol

\* C22: two objects built with the same tank_size, fish_count and seed have
\* the same fish after the same step calls, whatever the order of the calls
C22_AquariumSameSeedSameStates ==
    (/\ aq[1].built /\ aq[2].built
     /\ aq[1].seed # None /\ aq[1].seed = aq[2].seed
     /\ Len(aq[1].fish) = Len(aq[2].fish)
     /\ aq[1].dts = aq[2].dts)
    => aq[1].fish = aq[2].fish

-----------------------------------------------------------------------------
(* main.py: the simulation loop and the client coroutines                  *)

SpecServer == Init /\ [][NextServer]_vars

\* the fish of one snapshot have been stepped the same number of times
BetweenTicks(m) ==
    \A i \in DOMAIN m.fish : \A j \in DOMAIN m.fish : m.fish[i].stepped = m.fish[j].stepped

\* C27: every snapshot that is being sent to a client, the initial one of
\* websocket_endpoint or the one of a broadcast, was taken between ticks: all
\* its fish have been stepped the same number of times
C27_SnapshotsBetweenTicks ==
    /\ \A w \in Clients : BetweenTicks(conn[w].pending)
    /\ BetweenTicks(loop.bc.message)

\* an initial snapshot taken after a tick is being sent while a broadcast of
\* the simulation loop is suspended in a send
C27_Witness ==
    /\ loop.pc = "sending"
    /\ loop.bc.message.fish[MaxTankFish].stepped >= 1
    /\ \E w \in Clients :
         /\ conn[w].pc = "initial_send"
         /\ conn[w].pending.fish[MaxTankFish].stepped = loop.bc.message.fish[1].stepped

TimesSent(sentTo, w) == Cardinality({i \in 1 .. Len(sentTo) : sentTo[i] = w})

\* C28: when a broadcast has returned, every connection that was in `active`
\* from its start to its end and whose send did not raise was sent the
\* message exactly once
C28_BroadcastExactlyOnce ==
    loop.pc \in {"sleeping", "ready"} =>
        \A w \in (loop.bc.atStart \ loop.bc.removed) \ loop.bc.raised :
            TimesSent(loop.bc.sentTo, w) = 1

NoDuplicates(a) == \A i \in 1 .. Len(a) : \A j \in 1 .. Len(a) : a[i] = a[j] => i = j

\* C29: `active` holds each connection at most once and only accepted
\* connections whose endpoint has not disconnected them; after a broadcast has
\* returned no connection whose send raised in it is in `active`; neither a
\* disconnect of a connection that is not in `active` nor a failing send ends
\* an endpoint or the simulation loop with an exception
C29_ActiveConsistent ==
    /\ NoDuplicates(active)
    /\ \A i \in 1 .. Len(active) : conn[active[i]].pc \in {"initial_send", "receiving"}
    /\ loop.pc \in {"sleeping", "ready"} => \A w \in loop.bc.raised : ~InList(active, w)
    /\ loop.pc # "crashed"
    /\ \A w \in Clients : conn[w].pc # "crashed"

\* a send to one connection raised in the first broadcast and the connection
\* was dropped, its endpoint then disconnected it once more, and the second
\* broadcast has sent the message to another connection
C29_Witness ==
    /\ loop.ticks = MaxTicks
    /\ loop.pc = "sleeping"
    /\ loop.bc.sentTo # <<>>
    /\ loop.bc.raised = {}
    /\ \E w \in Clients : conn[w].dropped /\ conn[w].pc = "closed"

-----------------------------------------------------------------------------
(* A caller that keeps and changes the list returned by states()           *)

\* the caller takes one snapshot in a run
StatesOne == ~snap[1].taken /\ states(1)

MutateFieldOne == \E p \in 1 .. MaxFish, m \in MutationValues : MutateSnapshotField(1, p, m)

MutateListOne == MutateSnapshotList(1)

SnapArgs ==
    {a \in ConstructArgs : ValidConfig(ConfigOf(a)) /\ a.tank_size = DefaultTank /\ a.rng # None}

ConstructSnap == \E args \in SnapArgs : Construct(1, args, 1)

StepSnap == \E dt \in DtValues : Len(hist[1].dts) < MaxPairSteps /\ Step(1, dt)

-----------------------------------------------------------------------------
(* The two simulators of the repository: a run is a run of one of the two  *)
(* programs, a GoldfishSimulator with a seeded generator or the server's   *)
(* Tank                                                                    *)

SimulatorConstruct == ~tank.built /\ ConstructSnap

SimulatorStep == ~tank.built /\ StepSnap

ServerTankConstruct == ~constructed[1] /\ TankConstructAny

ServerTankStep == ~constructed[1] /\ TankStepAny

NextPrograms == SimulatorConstruct \/ SimulatorStep \/ ServerTankConstruct \/ ServerTankStep

SpecPrograms == Init /\ [][NextPrograms]_vars

\* the fish the constructor of simulator s spawned, from its seeded generator
SpawnedBy(s) ==
    SpawnAll(cfg[s], cfg[s].fish_count, <<>>, InjectedRng(hist[s].rng_arg, 1)).fish

\* C16: a step never changes the number of fish of a GoldfishSimulator or of
\* a Tank, the fish at index i after a step is the successor of the fish at
\* index i before it, and the ids of a Tank's fish are 0 .. n-1 in order
C16_FishCountAndOrderKept ==
    /\ \A s \in SimIds : constructed[s] =>
          /\ Len(fish[s]) = cfg[s].fish_count
          /\ Stepped(s) /\ Len(prev[s].fish) > 0 =>
                /\ Len(fish[s]) = Len(prev[s].fish)
                /\ \A i \in 1 .. Len(fish[s]) :
                      \E r \in RngStates(s) :
                          fish[s][i] = UpdateFish(prev[s].fish, i, Center(prev[s].fish),
                                                  cfg[s], r, LastDt(s)).state
    /\ tank.built =>
          /\ Len(tank.fish) = Len(tankLast.spawn)
          /\ \A i \in TankFishIds : tank.fish[i].id = i - 1
          /\ tank.steps >= 1 =>
                /\ Len(tank.fish) = Len(tankLast.fish)
                /\ \A i \in TankFishIds :
                      tank.fish[i] = Fish_step(tankLast.fish[i], tankLast.draws[i], tankLast.dt)

\* a Tank of at least two fish was stepped twice and its fish moved
C16_Witness ==
    /\ tank.built /\ tank.steps >= 2 /\ Len(tank.fish) >= 2
    /\ \A i \in TankFishIds : tank.fish[i].id = i - 1 /\ tank.fish[i].pos # tankLast.fish[i].pos

\* C17: after any number of steps the scale of every fish of a
\* GoldfishSimulator or of a Tank is the scale it was given at spawn
C17_ScaleConstant ==
    /\ \A s \in SimIds : constructed[s] =>
          \A i \in 1 .. Len(fish[s]) : fish[s][i].scale = SpawnedBy(s)[i].scale
    /\ tank.built =>
          \A i \in TankFishIds : tank.fish[i].scale = tankLast.spawn[i].scale

\* a simulator with two fish of different scales was stepped twice
C17_Witness ==
    /\ Stepped(1) /\ Len(hist[1].dts) >= 2 /\ Len(fish[1]) >= 2
    /\ fish[1][1].scale # fish[1][2].scale
    /\ fish[1][1].scale = SpawnedBy(1)[1].scale
    /\ fish[1][1].position # SpawnedBy(1)[1].position

NextSnap == ConstructSnap \/ StepSnap \/ StatesOne \/ MutateFieldOne \/ MutateListOne

SpecSnap == Init /\ [][NextSnap]_vars

\* C5: nothing a caller does to the value returned by states() changes the
\* simulator's fish
C5_SnapshotIsolated ==
    [][(MutateFieldOne \/ MutateListOne) => fish' = fish]_vars

-----------------------------------------------------------------------------
(* Two simulators in one process                                           *)

PairArgs ==
    {a \in ConstructArgs : ValidConfig(ConfigOf(a)) /\ a.tank_size = DefaultTank /\ a.rng # None}

ConstructPair == \E s \in SimIds, args \in PairArgs, fresh \in Seeds : Construct(s, args, fresh)

StepPair == \E s \in SimIds, dt \in DtValues : Len(hist[s].dts) < MaxPairSteps /\ Step(s, dt)

NextPair == ConstructPair \/ StepPair

SpecPair == Init /\ [][NextPair]_vars

\* C6: two simulators constructed with the same arguments and generators
\* seeded alike have the same fish after the same sequence of step(dt) calls,
\* however the calls were interleaved
C6_SameSeedSameStates ==
    (/\ constructed[1] /\ constructed[2]
     /\ cfg[1] = cfg[2]
     /\ hist[1].rng_arg # None /\ hist[1].rng_arg = hist[2].rng_arg
     /\ hist[1].dts = hist[2].dts)
    => fish[1] = fish[2]

\* both simulators hold fish, were seeded alike and have made the same steps
C6_Witness ==
    /\ constructed[1] /\ constructed[2] /\ cfg[1] = cfg[2]
    /\ hist[1].rng_arg # None /\ hist[1].rng_arg = hist[2].rng_arg
    /\ Len(hist[1].dts) = MaxPairSteps /\ hist[1].dts = hist[2].dts
    /\ Len(fish[1]) >= 1 /\ fish[1] = fish[2]
    /\ fish[1] # prev[1].fish

-----------------------------------------------------------------------------
(* The pure vector functions on their own                                  *)

VecInputs ==
    {Zero3, <<S, 0, 0>>, <<-S, 0, 0>>, <<0, S, 0>>, <<0, -S, 0>>, <<0, 0, S>>, <<0, 0, -S>>,
     <<6000, 8000, 0>>, <<-6000, -8000, 0>>, <<0, 6000, 8000>>, <<9999, 141, 0>>,
     <<3000, 4000, 0>>}

BlendValues == {0, S \div 2, S}

InitVec ==
    /\ SimInit /\ TankIdle /\ ToolIdle /\ AqIdle /\ ServerIdle
    /\ vecIn \in [a : VecInputs, b : VecInputs, t : BlendValues]
    /\ vecOut = [op |-> "none", res |-> Zero3]

Call_vec_normalize ==
    /\ vecOut' = [op |-> "_vec_normalize", res |-> _vec_normalize(vecIn.a)]
    /\ UNCHANGED <<vecIn, simVars, extVars>>

Call_normalize ==
    /\ vecOut' = [op |-> "_normalize", res |-> _normalize(vecIn.a)]
    /\ UNCHANGED <<vecIn, simVars, extVars>>

Call_slerp ==
    /\ vecOut' = [op |-> "_slerp", res |-> _slerp(vecIn.a, vecIn.b, vecIn.t)]
    /\ UNCHANGED <<vecIn, simVars, extVars>>

IsUnit(v) == _vec_length(v) = S

\* the blend values of a call _slerp(a, a, t): inside and outside [0, 1]
SameBlendValues == {-S, 0, 2500, S \div 2, 7500, S, 2 * S, HugeT, -HugeT}

\* _slerp(a, a, t) for a unit vector a
Call_slerp_same ==
    /\ vecOut.op = "none"
    /\ IsUnit(vecIn.a)
    /\ \E t \in SameBlendValues :
          /\ vecIn' = [a |-> vecIn.a, b |-> vecIn.a, t |-> t]
          /\ vecOut' = [op |-> "_slerp_same", res |-> _slerp(vecIn.a, vecIn.a, t)]
    /\ UNCHANGED <<simVars, extVars>>

NextVec == Call_vec_normalize \/ Call_normalize \/ Call_slerp \/ Call_slerp_same

SpecVec == InitVec /\ [][NextVec]_vars

C10_SlerpEndpoints ==
    vecOut.op = "_slerp" /\ IsUnit(vecIn.a) /\ IsUnit(vecIn.b) =>
        /\ vecIn.t = 0 => vecOut.res = vecIn.a
        /\ vecIn.t = S => vecOut.res = vecIn.b

\* _slerp(a, -a, 1) was called and returned -a
C10_Witness ==
    /\ vecOut.op = "_slerp" /\ IsUnit(vecIn.a)
    /\ vecIn.b = _vec_scale(vecIn.a, -S) /\ vecIn.t = S
    /\ vecOut.res = vecIn.b

====
